---------------------------- MODULE Spec2Model ----------------------------
(***************************************************************************)
(* Token authentication middleware for go-json-rest                        *)
(* (grayj/go-json-rest-middleware-tokenauth).                              *)
(*                                                                         *)
(* The repository holds two revisions of the middleware:                   *)
(*   "token.go"  src/token.go: the credential is read from the             *)
(*               Authorization header only and the base64-decoded bytes    *)
(*               are handed to the Authenticator;                          *)
(*   "part_001"  src/unnamed/part_001 (lines 150-283): a non-empty         *)
(*               access_token query parameter takes precedence over the    *)
(*               header, and the wire text of the header value is handed   *)
(*               to the Authenticator.                                     *)
(* The variable build says which revision is running.                      *)
(*                                                                         *)
(* Go strings are sequences of bytes (0..255); the ASCII text of each      *)
(* literal is given in a comment beside it.  userIDs and the fixed         *)
(* messages, which the code only compares and copies, are TLA+ strings.    *)
(***************************************************************************)
EXTENDS Integers, Sequences, FiniteSets, TLC

\* Number of requests that may be in flight together.
NumRequests == 2

Requests == 1..NumRequests

Builds == {"token.go", "part_001"}

-----------------------------------------------------------------------------
(* Byte strings *)

EmptyStr == << >>
\* "Token"
StrToken == <<84, 111, 107, 101, 110>>
\* "Token realm="
StrTokenRealm == <<84, 111, 107, 101, 110, 32, 114, 101, 97, 108, 109, 61>>
\* "abc"
StrAbc == <<97, 98, 99>>
\* "YWJj", the URL-safe base64 text of "abc"
StrYWJj == <<89, 87, 74, 106>>
\* "app"
StrApp == <<97, 112, 112>>

\* ' ', the separator of strings.SplitN
ChSpace == 32
\* '=', the padding character of base64.URLEncoding
ChPad == 61

\* Index of the first byte c in s, 0 when there is none.
RECURSIVE IndexFrom(_, _, _)
IndexFrom(s, c, i) ==
    IF i > Len(s) THEN 0
    ELSE IF s[i] = c THEN i
    ELSE IndexFrom(s, c, i + 1)

\* strings.SplitN(s, " ", 2): at most two parts, cut at the first space.
SplitN2(s) ==
    LET i == IndexFrom(s, ChSpace, 1)
    IN  IF i = 0 THEN << s >>
        ELSE << SubSeq(s, 1, i - 1), SubSeq(s, i + 1, Len(s)) >>

-----------------------------------------------------------------------------
(* encoding/base64, URLEncoding (RFC 4648 URL-safe alphabet, '=' padding) *)

\* Value of an alphabet character, -1 for any other byte.
B64Value(c) ==
    IF c >= 65 /\ c <= 90 THEN c - 65
    ELSE IF c >= 97 /\ c <= 122 THEN c - 71
    ELSE IF c >= 48 /\ c <= 57 THEN c + 4
    ELSE IF c = 45 THEN 62
    ELSE IF c = 95 THEN 63
    ELSE -1

\* Alphabet character of a 6-bit value.
B64Char(v) ==
    IF v < 26 THEN v + 65
    ELSE IF v < 52 THEN v + 71
    ELSE IF v < 62 THEN v - 4
    ELSE IF v = 62 THEN 45
    ELSE 95

\* DecodeString skips '\r' and '\n'.
RECURSIVE StripNewlines(_)
StripNewlines(s) ==
    IF s = << >> THEN << >>
    ELSE IF Head(s) = 10 \/ Head(s) = 13 THEN StripNewlines(Tail(s))
    ELSE << Head(s) >> \o StripNewlines(Tail(s))

\* One quantum of four characters; last says that no input follows it.
\* Padding is accepted in the last quantum only, as "xx==" or "xxx=".
DecodeQuantum(q, last) ==
    LET v1 == B64Value(q[1])
        v2 == B64Value(q[2])
        v3 == B64Value(q[3])
        v4 == B64Value(q[4])
        b1 == (v1 * 4 + (v2 \div 16)) % 256
        b2 == ((v2 % 16) * 16 + (v3 \div 4)) % 256
        b3 == ((v3 % 4) * 64 + v4) % 256
    IN  IF v1 < 0 \/ v2 < 0 THEN [ok |-> FALSE, bytes |-> << >>]
        ELSE IF v3 >= 0 /\ v4 >= 0 THEN [ok |-> TRUE, bytes |-> << b1, b2, b3 >>]
        ELSE IF last /\ v3 >= 0 /\ q[4] = ChPad THEN [ok |-> TRUE, bytes |-> << b1, b2 >>]
        ELSE IF last /\ q[3] = ChPad /\ q[4] = ChPad THEN [ok |-> TRUE, bytes |-> << b1 >>]
        ELSE [ok |-> FALSE, bytes |-> << >>]

RECURSIVE DecodeQuanta(_)
DecodeQuanta(t) ==
    IF t = << >> THEN [ok |-> TRUE, bytes |-> << >>]
    ELSE IF Len(t) < 4 THEN [ok |-> FALSE, bytes |-> << >>]
    ELSE LET d == DecodeQuantum(SubSeq(t, 1, 4), Len(t) = 4)
             r == DecodeQuanta(SubSeq(t, 5, Len(t)))
         IN  IF d.ok /\ r.ok THEN [ok |-> TRUE, bytes |-> d.bytes \o r.bytes]
             ELSE [ok |-> FALSE, bytes |-> << >>]

\* base64.URLEncoding.DecodeString
DecodeString(s) == DecodeQuanta(StripNewlines(s))

\* base64.URLEncoding.EncodeToString: three bytes to four characters, the
\* last group padded with '='.
RECURSIVE EncodeToString(_)
EncodeToString(b) ==
    IF b = << >> THEN << >>
    ELSE IF Len(b) = 1
    THEN << B64Char(b[1] \div 4), B64Char((b[1] % 4) * 16), ChPad, ChPad >>
    ELSE IF Len(b) = 2
    THEN << B64Char(b[1] \div 4), B64Char((b[1] % 4) * 16 + (b[2] \div 16)),
            B64Char((b[2] % 16) * 4), ChPad >>
    ELSE << B64Char(b[1] \div 4), B64Char((b[1] % 4) * 16 + (b[2] \div 16)),
            B64Char((b[2] % 16) * 4 + (b[3] \div 64)), B64Char(b[3] % 64) >>
         \o EncodeToString(SubSeq(b, 4, Len(b)))

-----------------------------------------------------------------------------
(* decodeAuthHeader *)

NoError == "nil"

\* Mutant: the error of DecodeString is dropped.
mw_decodeAuthHeaderIgnoresError(header) ==
    LET parts == SplitN2(header)
    IN  IF ~(Len(parts) = 2 /\ parts[1] = StrToken)
        THEN [token |-> EmptyStr, err |-> "Invalid authentication"]
        ELSE [token |-> DecodeString(parts[2]).bytes, err |-> NoError]

\* src/token.go: the method; returns the decoded bytes.
\* The name carries the receiver, as the function of part_001 has the same name.
mw_decodeAuthHeader(header) ==
    LET parts == SplitN2(header)
    IN  IF ~(Len(parts) = 2 /\ parts[1] = StrToken)
        THEN [token |-> EmptyStr, err |-> "Invalid authentication"]
        ELSE LET d == DecodeString(parts[2])
             IN  IF ~d.ok
                 THEN [token |-> EmptyStr, err |-> "Invalid base64"]
                 ELSE [token |-> d.bytes, err |-> NoError]

\* Mutant: the scheme is not compared.
decodeAuthHeaderAnyScheme(header) ==
    LET parts == SplitN2(header)
    IN  IF ~(Len(parts) = 2)
        THEN [token |-> EmptyStr, err |-> "Invalid Authorization header"]
        ELSE LET d == DecodeString(parts[2])
             IN  IF ~d.ok
                 THEN [token |-> EmptyStr, err |-> "Token encoding not valid"]
                 ELSE [token |-> parts[2], err |-> NoError]

\* src/unnamed/part_001: the function; validates the encoding and returns
\* the value part as it came over the wire.
decodeAuthHeader(header) ==
    LET parts == SplitN2(header)
    IN  IF ~(Len(parts) = 2 /\ parts[1] = StrToken)
        THEN [token |-> EmptyStr, err |-> "Invalid Authorization header"]
        ELSE LET d == DecodeString(parts[2])
             IN  IF ~d.ok
                 THEN [token |-> EmptyStr, err |-> "Token encoding not valid"]
                 ELSE [token |-> parts[2], err |-> NoError]

-----------------------------------------------------------------------------
(* Requests and configurations *)

\* "nope": a token no store knows
StrNope == <<110, 111, 112, 101>>

\* Authorization header values.
Headers ==
    { EmptyStr,                                                 \* (no header)
      <<84, 111, 107, 101, 110, 32, 89, 87, 74, 106>>,          \* "Token YWJj"
      <<84, 111, 107, 101, 110, 32, 87, 86, 100, 75, 97, 103, 61, 61>>,
                                                                \* "Token WVdKag=="
      <<84, 111, 107, 101, 110, 32, 101, 72, 108, 54>>,         \* "Token eHl6"
      <<66, 101, 97, 114, 101, 114, 32, 89, 87, 74, 106>>,      \* "Bearer YWJj"
      <<116, 111, 107, 101, 110, 32, 89, 87, 74, 106>>,         \* "token YWJj"
      StrToken,                                                 \* "Token"
      <<84, 111, 107, 101, 110, 32>>,                           \* "Token "
      <<84, 111, 107, 101, 110, 89, 87, 74, 106>>,              \* "TokenYWJj"
      <<84, 111, 107, 101, 110, 32, 89, 87, 33, 106>>,          \* "Token YW!j"
      <<84, 111, 107, 101, 110, 32, 89, 87, 74>>,               \* "Token YWJ"
      <<84, 111, 107, 101, 110, 32, 32, 89, 87, 74, 106>>,      \* "Token  YWJj"
      <<84, 111, 107, 101, 110, 32, 89, 87, 74, 106, 32, 89, 87, 74, 106>>,
                                                                \* "Token YWJj YWJj"
      <<84, 111, 107, 101, 110, 32, 97, 98, 99>>,               \* "Token abc"
      <<84, 111, 107, 101, 110, 32, 110, 111, 112, 101>>        \* "Token nope"
    }

HdrTokenYWJj == <<84, 111, 107, 101, 110, 32, 89, 87, 74, 106>>
HdrTokenXyz == <<84, 111, 107, 101, 110, 32, 101, 72, 108, 54>>
HdrBearer == <<66, 101, 97, 114, 101, 114, 32, 89, 87, 74, 106>>

\* request.Env, a map: a set of <<key, value>> pairs with one pair per key.
EmptyEnv == {}
EnvSet(env, k, v) == {p \in env : p[1] # k} \cup {<<k, v>>}
EnvHas(env, k) == \E p \in env : p[1] = k
EnvGet(env, k) == (CHOOSE p \in env : p[1] = k)[2]

\* The requests the clients send: Authorization header, access_token query
\* parameter ("" when absent), URL path, and the Env the request arrives with.
Request(h, q, p, e) == [header |-> h, query |-> q, path |-> p, env |-> e]

RequestInputs ==
    { Request(h, EmptyStr, "/", EmptyEnv) : h \in Headers }
    \cup { Request(h, q, "/", EmptyEnv) :
              h \in {EmptyStr, HdrTokenYWJj, HdrBearer}, q \in {StrAbc, StrNope} }
    \cup { Request(HdrTokenYWJj, q, "/admin", EmptyEnv) : q \in {EmptyStr, StrAbc} }
    \cup { Request(EmptyStr, StrYWJj, "/", EmptyEnv) }
    \cup { Request(h, EmptyStr, "/", {<<"REMOTE_USER", "stale">>}) :
              h \in {EmptyStr, HdrTokenYWJj} }

\* The Authenticator callbacks a caller may supply: none, or a lookup in the
\* caller's token store ("abc" is user-42's token, "YWJj" is user-7's).
Authenticators == {"nil", "lookup"}

CallAuthenticator(f, token) ==
    IF token = StrAbc THEN "user-42"
    ELSE IF token = StrYWJj THEN "user-7"
    ELSE ""

\* The Authorizer callbacks a caller may supply: none, or one that keeps
\* everybody out of /admin.  "default" is the closure MiddlewareFunc installs.
Authorizers == {"nil", "byPath"}

\* Mutant: the default closure answers false.
CallAuthorizerDefaultDenies(f, request) ==
    IF f = "default" THEN FALSE
    ELSE request.path # "/admin"

CallAuthorizer(f, request) ==
    IF f = "default" THEN TRUE
    ELSE request.path # "/admin"

\* Entropy the caller may configure besides leaving it unset (0).
SmallEntropy == 3
\* 32 byte == 256 bit
DefaultEntropy == 32

StatusUnauthorized == 401

-----------------------------------------------------------------------------
(* State *)

VARIABLES
    build,      \* the revision running: "token.go" or "part_001"
    mw,         \* the AuthTokenMiddleware struct (with part_001's tokenEntropy)
    installed,  \* MiddlewareFunc has returned a handler
    fatal,      \* log.Fatal has ended the process
    req,        \* per request: the handler's position, locals and effects
    prim        \* the last call of a credential primitive (New, Equal, Token)

vars == << build, mw, installed, fatal, req, prim >>

\* No primitive has been called yet.
NoPrim == [op |-> "none", arg |-> << >>, ret |-> << >>]

\* A request not yet received.
IdleRequest ==
    [ pc      |-> "idle",
      in      |-> Request(EmptyStr, EmptyStr, "/", EmptyEnv),
      env     |-> EmptyEnv,       \* request.Env
      token   |-> EmptyStr,       \* local token
      userID  |-> "",             \* local userID
      resp    |-> << >>,          \* responses written to the writer
      calls   |-> << >> ]         \* callbacks and handler invoked, in order

Call(fn, arg, ret) == [fn |-> fn, arg |-> arg, ret |-> ret]

\* The struct as the caller fills it in, before MiddlewareFunc.
Init ==
    /\ build \in Builds
    /\ mw \in [ Realm : {EmptyStr, StrApp},
                 Authenticator : Authenticators,
                 Authorizer : Authorizers,
                 TokenEntropy : IF build = "token.go" THEN {0, SmallEntropy}
                                ELSE {DefaultEntropy} ]
    /\ installed = FALSE
    /\ fatal = FALSE
    /\ req = [r \in Requests |-> IdleRequest]
    /\ prim = NoPrim

-----------------------------------------------------------------------------
(* Setup *)

\* Mutant: the Realm is not checked.
MiddlewareFuncNoRealmCheck ==
    /\ ~fatal
    /\ IF mw.Authenticator = "nil"
       THEN /\ fatal' = TRUE
            /\ UNCHANGED << build, mw, installed, req, prim >>
       ELSE /\ mw' = [mw EXCEPT
                        !.Authorizer = IF @ = "nil" THEN "default" ELSE @,
                        !.TokenEntropy = IF build = "token.go" /\ @ = 0
                                         THEN DefaultEntropy ELSE @]
            /\ installed' = TRUE
            /\ UNCHANGED << build, fatal, req, prim >>

\* MiddlewareFunc up to the closure it returns; log.Fatal exits the process.
MiddlewareFunc ==
    /\ ~fatal
    /\ IF mw.Realm = EmptyStr \/ mw.Authenticator = "nil"
       THEN /\ fatal' = TRUE
            /\ UNCHANGED << build, mw, installed, req, prim >>
       ELSE /\ mw' = [mw EXCEPT
                        !.Authorizer = IF @ = "nil" THEN "default" ELSE @,
                        !.TokenEntropy = IF build = "token.go" /\ @ = 0
                                         THEN DefaultEntropy ELSE @]
            /\ installed' = TRUE
            /\ UNCHANGED << build, fatal, req, prim >>

-----------------------------------------------------------------------------
(* The handler MiddlewareFunc returns *)

\* unauthorized: the challenge header and rest.Error's status and message.
unauthorized(realm) ==
    [ status |-> StatusUnauthorized,
      wwwAuthenticate |-> StrTokenRealm \o realm,
      body |-> "Not Authorized" ]

\* The request after mw.unauthorized(writer); return.
Rejected(q) ==
    [q EXCEPT !.pc = "done", !.resp = Append(@, unauthorized(mw.Realm))]

\* The credential of a request: [token, err].
\* src/token.go, lines 56-68.
ExtractHeaderOnly(in) ==
    IF in.header = EmptyStr
    THEN [token |-> EmptyStr, err |-> "no Authorization header"]
    ELSE mw_decodeAuthHeader(in.header)

\* Mutant: the query parameter is taken even when it is empty.
ExtractQueryAlways(in) ==
    IF Len(in.query) >= 0
    THEN [token |-> in.query, err |-> NoError]
    ELSE IF in.header = EmptyStr
    THEN [token |-> EmptyStr, err |-> "no Authorization header"]
    ELSE decodeAuthHeader(in.header)

\* Mutant: the header is preferred and the query parameter read only without it.
ExtractHeaderFirst(in) ==
    IF in.header # EmptyStr
    THEN decodeAuthHeader(in.header)
    ELSE IF Len(in.query) > 0
    THEN [token |-> in.query, err |-> NoError]
    ELSE [token |-> EmptyStr, err |-> "no Authorization header"]

\* Mutant: the query parameter is base64-decoded like the header value.
ExtractQueryDecoded(in) ==
    IF Len(in.query) > 0
    THEN IF DecodeString(in.query).ok
         THEN [token |-> DecodeString(in.query).bytes, err |-> NoError]
         ELSE [token |-> EmptyStr, err |-> "Token encoding not valid"]
    ELSE IF in.header = EmptyStr
    THEN [token |-> EmptyStr, err |-> "no Authorization header"]
    ELSE decodeAuthHeader(in.header)

\* src/unnamed/part_001, lines 201-219.
ExtractQueryFirst(in) ==
    IF Len(in.query) > 0
    THEN [token |-> in.query, err |-> NoError]
    ELSE IF in.header = EmptyStr
    THEN [token |-> EmptyStr, err |-> "no Authorization header"]
    ELSE decodeAuthHeader(in.header)

Extract(in) ==
    IF build = "token.go" THEN ExtractHeaderOnly(in) ELSE ExtractQueryFirst(in)

\* The handler is entered with a request and extracts its credential.
HandlerEntry(r, in) ==
    /\ ~fatal
    /\ installed
    /\ req[r].pc = "idle"
    /\ LET c == Extract(in)
           q == [req[r] EXCEPT !.in = in, !.env = in.env]
       IN  req' = [req EXCEPT ![r] =
                      IF c.err # NoError THEN Rejected(q)
                      ELSE [q EXCEPT !.pc = "authenticate", !.token = c.token]]
    /\ UNCHANGED << build, mw, installed, fatal, prim >>

\* Mutant: the empty userID is not checked.
AuthenticateNoCheck(r) ==
    /\ ~fatal
    /\ req[r].pc = "authenticate"
    /\ LET u == CallAuthenticator(mw.Authenticator, req[r].token)
       IN  req' = [req EXCEPT ![r] =
                      [@ EXCEPT !.userID = u, !.pc = "authorize",
                          !.calls = Append(@, Call("Authenticator", req[r].token, u))]]
    /\ UNCHANGED << build, mw, installed, fatal, prim >>

\* Mutant: the 401 is written for the empty userID, but the handler goes on.
AuthenticateNoReturn(r) ==
    /\ ~fatal
    /\ req[r].pc = "authenticate"
    /\ LET u == CallAuthenticator(mw.Authenticator, req[r].token)
           q == [req[r] EXCEPT !.userID = u,
                    !.calls = Append(@, Call("Authenticator", req[r].token, u))]
       IN  req' = [req EXCEPT ![r] =
                      IF u = "" THEN [Rejected(q) EXCEPT !.pc = "authorize"]
                      ELSE [q EXCEPT !.pc = "authorize"]]
    /\ UNCHANGED << build, mw, installed, fatal, prim >>

\* Mutant: the handler resets the shared Authorizer to the default while it
\* authenticates a request.
AuthenticateWritesConfig(r) ==
    /\ ~fatal
    /\ req[r].pc = "authenticate"
    /\ LET u == CallAuthenticator(mw.Authenticator, req[r].token)
           q == [req[r] EXCEPT !.userID = u,
                    !.calls = Append(@, Call("Authenticator", req[r].token, u))]
       IN  req' = [req EXCEPT ![r] =
                      IF u = "" THEN Rejected(q)
                      ELSE [q EXCEPT !.pc = "authorize"]]
    /\ mw' = [mw EXCEPT !.Authorizer = "default"]
    /\ UNCHANGED << build, installed, fatal, prim >>

\* userID := mw.Authenticator(token); the empty userID rejects.
Authenticate(r) ==
    /\ ~fatal
    /\ req[r].pc = "authenticate"
    /\ LET u == CallAuthenticator(mw.Authenticator, req[r].token)
           q == [req[r] EXCEPT !.userID = u,
                    !.calls = Append(@, Call("Authenticator", req[r].token, u))]
       IN  req' = [req EXCEPT ![r] =
                      IF u = "" THEN Rejected(q)
                      ELSE [q EXCEPT !.pc = "authorize"]]
    /\ UNCHANGED << build, mw, installed, fatal, prim >>

\* Mutant: the wrapped handler is called before REMOTE_USER is set.
AuthorizeNoEnv(r) ==
    /\ ~fatal
    /\ req[r].pc = "authorize"
    /\ LET a == CallAuthorizer(mw.Authorizer, req[r].in)
           q == [req[r] EXCEPT !.calls = Append(@, Call("Authorizer", req[r].in.path, a))]
           e == EnvSet(q.env, "REMOTE_USER", q.userID)
       IN  req' = [req EXCEPT ![r] =
                      IF ~a THEN Rejected(q)
                      ELSE [q EXCEPT !.pc = "done", !.env = e,
                               !.calls = Append(@, Call("handler", q.in.path, q.env))]]
    /\ UNCHANGED << build, mw, installed, fatal, prim >>

\* Mutant: the Authorizer's answer is not looked at.
AuthorizeIgnoresResult(r) ==
    /\ ~fatal
    /\ req[r].pc = "authorize"
    /\ LET a == CallAuthorizer(mw.Authorizer, req[r].in)
           q == [req[r] EXCEPT !.calls = Append(@, Call("Authorizer", req[r].in.path, a))]
           e == EnvSet(q.env, "REMOTE_USER", q.userID)
       IN  req' = [req EXCEPT ![r] =
                      [q EXCEPT !.pc = "done", !.env = e,
                          !.calls = Append(@, Call("handler", q.in.path, e))]]
    /\ UNCHANGED << build, mw, installed, fatal, prim >>

\* Mutant: an authorization denial is answered with 403 Forbidden.
AuthorizeForbidden(r) ==
    /\ ~fatal
    /\ req[r].pc = "authorize"
    /\ LET a == CallAuthorizer(mw.Authorizer, req[r].in)
           q == [req[r] EXCEPT !.calls = Append(@, Call("Authorizer", req[r].in.path, a))]
           e == EnvSet(q.env, "REMOTE_USER", q.userID)
       IN  req' = [req EXCEPT ![r] =
                      IF ~a THEN [q EXCEPT !.pc = "done",
                                     !.resp = Append(@, [unauthorized(mw.Realm) EXCEPT
                                                 !.status = 403, !.body = "Forbidden"])]
                      ELSE [q EXCEPT !.pc = "done", !.env = e,
                               !.calls = Append(@, Call("handler", q.in.path, e))]]
    /\ UNCHANGED << build, mw, installed, fatal, prim >>

\* Mutant: after a denial the 401 is written but the handler goes on.
AuthorizeNoReturn(r) ==
    /\ ~fatal
    /\ req[r].pc = "authorize"
    /\ LET a == CallAuthorizer(mw.Authorizer, req[r].in)
           q == [req[r] EXCEPT !.calls = Append(@, Call("Authorizer", req[r].in.path, a))]
           d == IF a THEN q ELSE Rejected(q)
           e == EnvSet(q.env, "REMOTE_USER", q.userID)
       IN  req' = [req EXCEPT ![r] =
                      [d EXCEPT !.pc = "done", !.env = e,
                          !.calls = Append(@, Call("handler", q.in.path, e))]]
    /\ UNCHANGED << build, mw, installed, fatal, prim >>

\* Mutant: REMOTE_USER is set before the Authorizer is asked.
AuthorizeEnvFirst(r) ==
    /\ ~fatal
    /\ req[r].pc = "authorize"
    /\ LET a == CallAuthorizer(mw.Authorizer, req[r].in)
           e == EnvSet(req[r].env, "REMOTE_USER", req[r].userID)
           q == [req[r] EXCEPT !.env = e,
                    !.calls = Append(@, Call("Authorizer", req[r].in.path, a))]
       IN  req' = [req EXCEPT ![r] =
                      IF ~a THEN Rejected(q)
                      ELSE [q EXCEPT !.pc = "done",
                               !.calls = Append(@, Call("handler", q.in.path, e))]]
    /\ UNCHANGED << build, mw, installed, fatal, prim >>

\* mw.Authorizer(request); false rejects, true sets REMOTE_USER and calls
\* the wrapped handler.
Authorize(r) ==
    /\ ~fatal
    /\ req[r].pc = "authorize"
    /\ LET a == CallAuthorizer(mw.Authorizer, req[r].in)
           q == [req[r] EXCEPT !.calls = Append(@, Call("Authorizer", req[r].in.path, a))]
           e == EnvSet(q.env, "REMOTE_USER", q.userID)
       IN  req' = [req EXCEPT ![r] =
                      IF ~a THEN Rejected(q)
                      ELSE [q EXCEPT !.pc = "done", !.env = e,
                               !.calls = Append(@, Call("handler", q.in.path, e))]]
    /\ UNCHANGED << build, mw, installed, fatal, prim >>

-----------------------------------------------------------------------------
(* Credential primitives *)

\* Number of byte streams the random source may supply.
NumStreams == 2

\* The i-th byte of stream k of crypto/rand.
RandByte(k, i) == (k * 89 + i * 151) % 256

\* What rand.Read may do: fill the buffer from one of the streams, or fail
\* after n bytes.
RandomSources ==
    { [ok |-> TRUE, k |-> k, n |-> 0] : k \in 1..NumStreams }
    \cup { [ok |-> FALSE, k |-> 1, n |-> n] : n \in {0, 1} }

\* The buffer after rand.Read(bytes[:cap(bytes)]) on make([]byte, entropy).
ReadRandom(entropy, rnd) ==
    [i \in 1..entropy |->
        IF rnd.ok \/ i <= rnd.n THEN RandByte(rnd.k, i) ELSE 0]

\* Mutant: the buffer is encoded and returned beside the error.
NewKeepsBytes(entropy, rnd) ==
    [ token |-> EncodeToString(ReadRandom(entropy, rnd)),
      err   |-> IF rnd.ok THEN NoError ELSE "rand.Read error",
      reads |-> 1 ]

\* New: [token, err], and the number of reads of the random source.
New(entropy, rnd) ==
    IF ~rnd.ok
    THEN [token |-> EmptyStr, err |-> "rand.Read error", reads |-> 1]
    ELSE [token |-> EncodeToString(ReadRandom(entropy, rnd)), err |-> NoError,
          reads |-> 1]

\* Bitwise exclusive or and inclusive or of two bytes.
RECURSIVE BitXor(_, _)
BitXor(a, b) ==
    IF a = 0 /\ b = 0 THEN 0
    ELSE (((a % 2) + (b % 2)) % 2) + 2 * BitXor(a \div 2, b \div 2)

RECURSIVE BitOr(_, _)
BitOr(a, b) ==
    IF a = 0 /\ b = 0 THEN 0
    ELSE (IF a % 2 = 1 \/ b % 2 = 1 THEN 1 ELSE 0) + 2 * BitOr(a \div 2, b \div 2)

\* v |= x[i] ^ y[i] over the first n bytes, from v.
RECURSIVE XorFold(_, _, _, _)
XorFold(x, y, n, v) ==
    IF n = 0 THEN v
    ELSE XorFold(x, y, n - 1, BitOr(v, BitXor(x[n], y[n])))

\* subtle.ConstantTimeCompare: 1 for equal contents, 0 otherwise, and 0 at
\* once for slices of different lengths.
ConstantTimeCompare(x, y) ==
    IF Len(x) # Len(y) THEN 0
    ELSE IF XorFold(x, y, Len(x), 0) = 0 THEN 1 ELSE 0

\* Mutant: the lengths are not compared; the common prefix decides.
EqualNoLengthCheck(a, b) ==
    LET n == IF Len(a) < Len(b) THEN Len(a) ELSE Len(b)
    IN  XorFold(a, b, n, 0) = 0

\* Equal
Equal(a, b) == ConstantTimeCompare(a, b) = 1

\* The strings compared: "", "ab", "abc", "abd", "YWJj".
EqualInputs ==
    { EmptyStr, <<97, 98>>, StrAbc, <<97, 98, 100>>, StrYWJj }

\* A call of New.
CallNew(rnd) ==
    /\ ~fatal
    /\ prim' = [op |-> "New", arg |-> mw.TokenEntropy,
                 ret |-> New(mw.TokenEntropy, rnd)]
    /\ UNCHANGED << build, mw, installed, fatal, req >>

\* A call of Equal.
CallEqual(a, b) ==
    /\ ~fatal
    /\ prim' = [op |-> "Equal", arg |-> << a, b >>, ret |-> Equal(a, b)]
    /\ UNCHANGED << build, mw, installed, fatal, req >>

Next ==
    \/ MiddlewareFunc
    \/ \E r \in Requests, in \in RequestInputs : HandlerEntry(r, in)
    \/ \E r \in Requests : Authenticate(r)
    \/ \E r \in Requests : Authorize(r)

Spec == Init /\ [][Next]_vars

\* Setup and the credential primitives, in any order.
NextPrim ==
    \/ MiddlewareFunc
    \/ \E rnd \in RandomSources : CallNew(rnd)
    \/ \E a \in EqualInputs, b \in EqualInputs : CallEqual(a, b)

SpecPrim == Init /\ [][NextPrim]_vars

-----------------------------------------------------------------------------
(* Reading a request's history *)

\* Positions in request r's history at which fn was invoked.
CallsOf(r, fn) == {i \in 1..Len(req[r].calls) : req[r].calls[i].fn = fn}

\* Request r was answered by exactly one response, the 401.
RejectedOnce(r) ==
    /\ req[r].pc = "done"
    /\ Len(req[r].resp) = 1
    /\ req[r].resp[1].status = 401

\* The Authenticator returned u for request r.
Authenticated(r, u) ==
    \E i \in CallsOf(r, "Authenticator") : req[r].calls[i].ret = u

\* The Authorizer returned a for request r.
Authorized(r, a) ==
    \E j \in CallsOf(r, "Authorizer") : req[r].calls[j].ret = a

\* h begins with the case-sensitive scheme "Token" and a space.
HasTokenScheme(h) ==
    /\ Len(h) >= 6
    /\ SubSeq(h, 1, 6) = <<84, 111, 107, 101, 110, 32>>

\* The revision running reads request r's credential from the header.
HeaderConsulted(r) ==
    /\ req[r].pc # "idle"
    /\ build = "token.go" \/ req[r].in.query = EmptyStr

\* Token: the request's token as a wrapped handler reads it after the gate.
\* src/unnamed/part_001, lines 279-282; src/token.go has no such function.
Token(request) == decodeAuthHeader(request.header)

\* A call of Token on a request the gate has forwarded.
CallToken(r) ==
    /\ ~fatal
    /\ build = "part_001"
    /\ CallsOf(r, "handler") # {}
    /\ prim' = [op |-> "Token", arg |-> r, ret |-> Token(req[r].in)]
    /\ UNCHANGED << build, mw, installed, fatal, req >>

\* Setup, the handler, and Token called on forwarded requests.
NextToken ==
    \/ Next
    \/ \E r \in Requests : CallToken(r)

SpecToken == Init /\ [][NextToken]_vars

-----------------------------------------------------------------------------
(* Claims *)

\* C1: no forwarding without authentication and authorization.  Whenever the
\* wrapped handler has been invoked for a request, a credential was extracted
\* from that request, the Authenticator was invoked earlier with it and
\* returned a non-empty userID, the Authorizer was invoked after that and
\* returned true, and the handler saw Env["REMOTE_USER"] equal to exactly
\* that userID.
C1_NoForwardWithoutAuth ==
    \A r \in Requests : \A k \in CallsOf(r, "handler") :
        \E i \in CallsOf(r, "Authenticator"), j \in CallsOf(r, "Authorizer") :
            LET c == req[r].calls
            IN  /\ i < j /\ j < k
                /\ Extract(req[r].in).err = NoError
                /\ c[i].arg = Extract(req[r].in).token
                /\ c[i].ret # ""
                /\ c[j].ret = TRUE
                /\ EnvHas(c[k].ret, "REMOTE_USER")
                /\ EnvGet(c[k].ret, "REMOTE_USER") = c[i].ret

\* C1 witness: two requests forwarded with different identities.
C1_Witness ==
    \E r1, r2 \in Requests :
        /\ CallsOf(r1, "handler") # {} /\ CallsOf(r2, "handler") # {}
        /\ req[r1].userID = "user-42" /\ req[r2].userID = "user-7"

\* C2: on a gate set up with no Authorizer, a finished request for which the
\* Authenticator returned a non-empty userID u was forwarded: the wrapped
\* handler was invoked exactly once with Env["REMOTE_USER"] = u and no 401
\* response was written.
C2_ForwardedWithoutAuthorizer ==
    \A r \in Requests :
        (mw.Authorizer = "default" /\ req[r].pc = "done"
            /\ \E u \in {"user-42", "user-7"} : Authenticated(r, u))
        => /\ Cardinality(CallsOf(r, "handler")) = 1
           /\ \A k \in CallsOf(r, "handler") :
                 /\ EnvHas(req[r].calls[k].ret, "REMOTE_USER")
                 /\ Authenticated(r, EnvGet(req[r].calls[k].ret, "REMOTE_USER"))
           /\ req[r].resp = << >>

\* C2 witness: user-42's request went through a gate with the default Authorizer.
C2_Witness ==
    \E r \in Requests :
        /\ mw.Authorizer = "default" /\ req[r].pc = "done"
        /\ Authenticated(r, "user-42")
        /\ CallsOf(r, "handler") # {}

\* C3: a request whose token resolved to a non-empty userID but whose
\* Authorizer returned false is rejected with 401: the wrapped handler is
\* not invoked and Env["REMOTE_USER"] is not written.
C3_DeniedIsRejected ==
    \A r \in Requests :
        Authorized(r, FALSE)
        => /\ RejectedOnce(r)
           /\ CallsOf(r, "handler") = {}
           /\ req[r].env = req[r].in.env

\* C3 witness: an authenticated request the Authorizer turned down.
C3_Witness ==
    \E r \in Requests :
        /\ req[r].userID # "" /\ Authorized(r, FALSE) /\ req[r].pc = "done"

\* C4: a request whose header decoded but for which the Authenticator
\* returned the empty string is rejected with 401, and neither the
\* Authorizer nor the wrapped handler is invoked for it.
C4_UnknownTokenIsRejected ==
    \A r \in Requests :
        Authenticated(r, "")
        => /\ RejectedOnce(r)
           /\ CallsOf(r, "Authorizer") = {}
           /\ CallsOf(r, "handler") = {}

\* C4 witness: a well-formed header whose token the store does not know.
C4_Witness ==
    \E r \in Requests :
        /\ req[r].in.header = HdrTokenXyz /\ req[r].in.query = EmptyStr
        /\ Authenticated(r, "") /\ req[r].pc = "done"

\* C5: a request with no Authorization header and no query token goes straight
\* to rejection: a 401 is written and none of the Authenticator, the
\* Authorizer or the wrapped handler is invoked.
C5_NoCredentialIsRejected ==
    \A r \in Requests :
        (req[r].pc # "idle" /\ req[r].in.header = EmptyStr /\ req[r].in.query = EmptyStr)
        => /\ RejectedOnce(r)
           /\ req[r].calls = << >>

\* C5 witness: such a request has been answered.
C5_Witness ==
    \E r \in Requests :
        /\ req[r].pc = "done"
        /\ req[r].in.header = EmptyStr /\ req[r].in.query = EmptyStr

\* C6: every rejection, whatever its cause, has status 401, the message
\* "Not Authorized" and a WWW-Authenticate header that is exactly
\* Token realm="<realm>": the literal Token realm= followed by the
\* configured realm enclosed in double quotes (byte 34).
C6_QuotedChallenge ==
    \A r \in Requests : \A i \in 1..Len(req[r].resp) :
        /\ req[r].resp[i].status = 401
        /\ req[r].resp[i].body = "Not Authorized"
        /\ req[r].resp[i].wwwAuthenticate =
              <<84, 111, 107, 101, 110, 32, 114, 101, 97, 108, 109, 61>>
                  \o <<34>> \o mw.Realm \o <<34>>

\* C7: header decoding succeeds only if the value is the case-sensitive
\* scheme Token, one space, and a second part; a request whose credential is
\* read from a header with another arrangement yields no token, is rejected
\* with the 401, and the Authenticator is never invoked for it.
C7_OnlyTokenScheme ==
    \A r \in Requests :
        (HeaderConsulted(r) /\ ~HasTokenScheme(req[r].in.header))
        => /\ RejectedOnce(r)
           /\ req[r].token = EmptyStr
           /\ CallsOf(r, "Authenticator") = {}

\* C7 witness: a Bearer header and a lower-case token header, both answered.
C7_Witness ==
    \E r1, r2 \in Requests :
        /\ HeaderConsulted(r1) /\ req[r1].in.header = HdrBearer
        /\ HeaderConsulted(r2)
        /\ req[r2].in.header = <<116, 111, 107, 101, 110, 32, 89, 87, 74, 106>>
        /\ req[r1].pc = "done" /\ req[r2].pc = "done"

\* C8: uniform rejection.  Under one configuration any two rejected requests
\* carry the same response (status, challenge header, body), whatever the
\* cause of the rejection.
C8_UniformRejection ==
    \A r1, r2 \in Requests :
        \A i \in 1..Len(req[r1].resp), j \in 1..Len(req[r2].resp) :
            req[r1].resp[i] = req[r2].resp[j]

\* C8 witness: one request rejected for its missing credential, another by
\* the Authorizer.
C8_Witness ==
    \E r1, r2 \in Requests :
        /\ Len(req[r1].resp) = 1 /\ req[r1].calls = << >>
        /\ Len(req[r2].resp) = 1 /\ Authorized(r2, FALSE)

\* C9: every invocation of the Authorizer for a request is preceded by an
\* invocation of the Authenticator for the same request that returned a
\* non-empty userID.
C9_AuthorizerAfterAuthentication ==
    \A r \in Requests : \A j \in CallsOf(r, "Authorizer") :
        \E i \in CallsOf(r, "Authenticator") :
            /\ i < j
            /\ req[r].calls[i].ret # ""

\* C9 witness: the Authorizer has been invoked while another request was
\* rejected by the Authenticator.
C9_Witness ==
    \E r1, r2 \in Requests :
        /\ CallsOf(r1, "Authorizer") # {}
        /\ Authenticated(r2, "") /\ req[r2].pc = "done"

\* The configuration lacks the Realm or the Authenticator.
BadConfig == mw.Realm = EmptyStr \/ mw.Authenticator = "nil"

\* C10: a gate with an empty Realm or a nil Authenticator never yields a
\* handler, and MiddlewareFunc on it ends the process in the fatal error; so
\* whenever a request is being processed the Realm is non-empty and the
\* Authenticator non-nil, and the fatal error is never raised once a
\* request has been received.
C10_SetupValidation ==
    /\ [](BadConfig => ~installed)
    /\ [](\A r \in Requests :
            req[r].pc # "idle" => (~BadConfig /\ ~fatal /\ installed))
    /\ [][BadConfig => fatal']_vars
    /\ [][fatal' => BadConfig]_vars

\* C10 witness: setup has ended in the fatal error.
C10_Witness == fatal /\ ~installed /\ mw.Realm = EmptyStr

\* Requests r1 and r2 ended the same way: the same callbacks with the same
\* arguments and results, the same handler call, the same responses.
SameOutcome(r1, r2) ==
    /\ req[r1].calls = req[r2].calls
    /\ req[r1].resp = req[r2].resp
    /\ req[r1].env = req[r2].env

\* A non-empty access_token is the token of the request, whatever its header.
QueryTakesPrecedence ==
    /\ \A r \in Requests :
          (req[r].pc # "idle" /\ req[r].in.query # EmptyStr)
          => /\ req[r].token = req[r].in.query
             /\ \A i \in CallsOf(r, "Authenticator") :
                   req[r].calls[i].arg = req[r].in.query
             /\ req[r].pc = "done" => CallsOf(r, "Authenticator") # {}
    /\ \A r1, r2 \in Requests :
          (/\ req[r1].pc = "done" /\ req[r2].pc = "done"
           /\ req[r1].in.query # EmptyStr
           /\ req[r1].in.query = req[r2].in.query
           /\ req[r1].in.path = req[r2].in.path
           /\ req[r1].in.env = req[r2].in.env)
          => SameOutcome(r1, r2)
    /\ \A r \in Requests :
          (req[r].in.query = EmptyStr /\ CallsOf(r, "Authenticator") # {})
          => HasTokenScheme(req[r].in.header)

\* C11 as stated: in every revision, a non-empty access_token query parameter
\* is the token handed to the Authenticator, the outcome does not depend on
\* the Authorization header, and the header is used only when the query
\* parameter is absent or empty.
C11_QueryPrecedenceEverywhere == QueryTakesPrecedence

\* C11 as amended: the above holds in the revision that reads access_token
\* (part_001); the header-only revision (token.go) never reads the query
\* parameter, so there a request without a header is rejected before any
\* callback even when it carries access_token.
C11_QueryPrecedence ==
    /\ build = "part_001" => QueryTakesPrecedence
    /\ build = "token.go" =>
          \A r \in Requests :
              (req[r].pc # "idle" /\ req[r].in.header = EmptyStr)
              => (RejectedOnce(r) /\ req[r].calls = << >>)

\* C11 witness: the same access_token sent without a header and with a
\* Bearer header, both forwarded.
C11_Witness ==
    \E r1, r2 \in Requests :
        /\ build = "part_001"
        /\ req[r1].in.query = StrAbc /\ req[r1].in.header = EmptyStr
        /\ req[r2].in.query = StrAbc /\ req[r2].in.header = HdrBearer
        /\ CallsOf(r1, "handler") # {} /\ CallsOf(r2, "handler") # {}

\* The header "Token " followed by the URL-safe base64 text of b.
TokenHeader(b) == <<84, 111, 107, 101, 110, 32>> \o EncodeToString(b)

\* The byte strings "", "abc", "xyz" and "YWJj".
RoundTripBytes == { << >>, <<97, 98, 99>>, <<120, 121, 122>>, <<89, 87, 74, 106>> }

\* C12: decode round trip.  A request whose credential is the header "Token "
\* followed by the URL-safe base64 encoding of b passes decoding, its token is
\* exactly b, and b (not the wire text) is what the Authenticator receives.
C12_DecodedTokenToAuthenticator ==
    \A r \in Requests : \A b \in RoundTripBytes :
        (HeaderConsulted(r) /\ req[r].in.header = TokenHeader(b))
        => /\ req[r].token = b
           /\ req[r].pc = "authenticate" \/ CallsOf(r, "Authenticator") # {}
           /\ \A i \in CallsOf(r, "Authenticator") : req[r].calls[i].arg = b

\* C13: a successful New returns a non-empty token that decodes to exactly N
\* bytes, where N is the entropy configured when New was called, or 32 when
\* it was left unset (0), and N is positive; in any order of New and
\* MiddlewareFunc.
C13_NewLength ==
    (prim.op = "New" /\ prim.ret.err = NoError)
    => LET N == IF prim.arg = 0 THEN 32 ELSE prim.arg
           d == DecodeString(prim.ret.token)
       IN  /\ N > 0
           /\ prim.ret.token # EmptyStr
           /\ d.ok
           /\ Len(d.bytes) = N

\* C14: when the random source fails, New returns an error together with the
\* empty string, after a single read; a token is returned only without error.
C14_NewFailure ==
    prim.op = "New"
    => /\ prim.ret.reads = 1
       /\ prim.ret.err # NoError => prim.ret.token = EmptyStr

\* C14 witness: New has been called on a failing random source.
C14_Witness == prim.op = "New" /\ prim.ret.err # NoError

\* C15: Equal(a, b) is true if and only if a and b are byte-for-byte
\* identical, for empty strings, strings of different lengths and prefixes.
C15_EqualIffIdentical ==
    prim.op = "Equal" => (prim.ret <=> (prim.arg[1] = prim.arg[2]))

\* C15 witness: Equal has answered false for "ab" and "abc".
C15_Witness ==
    /\ prim.op = "Equal"
    /\ prim.arg = << <<97, 98>>, <<97, 98, 99>> >>
    /\ prim.ret = FALSE

\* Headers with the scheme Token whose value is not URL-safe base64:
\* "Token YW!j", "Token YWJ", "Token  YWJj", "Token YWJj YWJj".
BadEncodingHeaders ==
    { <<84, 111, 107, 101, 110, 32, 89, 87, 33, 106>>,
      <<84, 111, 107, 101, 110, 32, 89, 87, 74>>,
      <<84, 111, 107, 101, 110, 32, 32, 89, 87, 74, 106>>,
      <<84, 111, 107, 101, 110, 32, 89, 87, 74, 106, 32, 89, 87, 74, 106>> }

\* C16: a request whose credential is a Token header with a value that is not
\* valid URL-safe base64 is rejected with the uniform 401; no callback and no
\* handler is invoked for it, and the response carries the generic message,
\* not the decode error.
C16_InvalidEncodingIsRejected ==
    \A r \in Requests :
        (HeaderConsulted(r) /\ req[r].in.header \in BadEncodingHeaders)
        => /\ RejectedOnce(r)
           /\ req[r].calls = << >>
           /\ req[r].resp[1] = [ status |-> 401,
                                 wwwAuthenticate |-> StrTokenRealm \o mw.Realm,
                                 body |-> "Not Authorized" ]

\* C16 witness: "Token YW!j" and "Token YWJ" have been answered.
C16_Witness ==
    \E r1, r2 \in Requests :
        /\ HeaderConsulted(r1) /\ req[r1].pc = "done"
        /\ req[r1].in.header = <<84, 111, 107, 101, 110, 32, 89, 87, 33, 106>>
        /\ HeaderConsulted(r2) /\ req[r2].pc = "done"
        /\ req[r2].in.header = <<84, 111, 107, 101, 110, 32, 89, 87, 74>>

\* C17: a request whose credential is the header "Token" alone, or "Token"
\* followed only by a space, fails to decode: it is rejected with 401 at
\* once and the Authenticator is never invoked (with an empty token).
C17_MissingValueIsRejected ==
    \A r \in Requests :
        (/\ HeaderConsulted(r)
         /\ req[r].in.header \in { <<84, 111, 107, 101, 110>>,
                                    <<84, 111, 107, 101, 110, 32>> })
        => /\ RejectedOnce(r)
           /\ CallsOf(r, "Authenticator") = {}

\* For every t of T, a request with access_token t and no header, and one
\* with the header "Token t" and no access_token, hand the same token to the
\* Authenticator and end the same way.
QueryHeaderEquivalent(T) ==
    \A r1, r2 \in Requests : \A t \in T :
        (/\ req[r1].pc = "done" /\ req[r2].pc = "done"
         /\ req[r1].in.query = t /\ req[r1].in.header = EmptyStr
         /\ req[r2].in.query = EmptyStr
         /\ req[r2].in.header = <<84, 111, 107, 101, 110, 32>> \o t
         /\ req[r1].in.path = req[r2].in.path
         /\ req[r1].in.env = req[r2].in.env)
        => /\ CallsOf(r1, "Authenticator") # {}
           /\ CallsOf(r2, "Authenticator") # {}
           /\ SameOutcome(r1, r2)

\* Credential strings: "abc", "YWJj", "nope".
CredentialStrings == { <<97, 98, 99>>, <<89, 87, 74, 106>>, <<110, 111, 112, 101>> }

\* C18 as stated: query/header equivalence for every credential string t, in
\* every revision.
C18_QueryHeaderEquivalenceAll == QueryHeaderEquivalent(CredentialStrings)

\* C18 as amended: in the revision that reads access_token (part_001), the
\* equivalence holds for every non-empty t that is valid padded URL-safe
\* base64 ("YWJj", "nope"); the header value is validated, the query value
\* is not.
C18_QueryHeaderEquivalence ==
    build = "part_001"
    => QueryHeaderEquivalent({ <<89, 87, 74, 106>>, <<110, 111, 112, 101>> })

\* C18 witness: "YWJj" sent as access_token and as header, both forwarded,
\* in part_001.
C18_Witness ==
    \E r1, r2 \in Requests :
        /\ build = "part_001"
        /\ req[r1].in.query = StrYWJj /\ req[r1].in.header = EmptyStr
        /\ req[r2].in.query = EmptyStr /\ req[r2].in.header = HdrTokenYWJj
        /\ req[r1].in.path = req[r2].in.path /\ req[r1].in.env = req[r2].in.env
        /\ CallsOf(r1, "handler") # {} /\ CallsOf(r2, "handler") # {}

\* C19: exactly one outcome, no retries.  A request has at most one outcome,
\* the wrapped handler invoked once or the 401 written once, never both; it
\* has that outcome exactly when the handler closure has returned; until
\* then its next step can be taken; and the Authenticator and the Authorizer
\* are each invoked at most once for it.
C19_ExactlyOneOutcome ==
    \A r \in Requests :
        /\ Cardinality(CallsOf(r, "Authenticator")) <= 1
        /\ Cardinality(CallsOf(r, "Authorizer")) <= 1
        /\ Cardinality(CallsOf(r, "handler")) + Len(req[r].resp) <= 1
        /\ req[r].pc = "done"
              <=> Cardinality(CallsOf(r, "handler")) + Len(req[r].resp) = 1
        /\ req[r].pc = "authenticate" => ENABLED Authenticate(r)
        /\ req[r].pc = "authorize" => ENABLED Authorize(r)

\* C19 witness: one request forwarded, another rejected by the Authorizer.
C19_Witness ==
    \E r1, r2 \in Requests :
        /\ req[r1].pc = "done" /\ CallsOf(r1, "handler") # {}
        /\ req[r2].pc = "done" /\ Authorized(r2, FALSE) /\ Len(req[r2].resp) = 1

\* C20: rejection leaves the request untouched.  A request that has been
\* answered with the 401, at whichever stage, has its Env exactly as it
\* arrived and its wrapped handler not invoked; the one 401 response is
\* the only effect.
C20_RejectionLeavesRequestUntouched ==
    \A r \in Requests :
        Len(req[r].resp) > 0
        => /\ req[r].env = req[r].in.env
           /\ CallsOf(r, "handler") = {}
           /\ RejectedOnce(r)

\* C20 witness: a request that arrived with REMOTE_USER set was rejected for
\* its missing credential, another was rejected by the Authorizer.
C20_Witness ==
    \E r1, r2 \in Requests :
        /\ req[r1].in.env = {<<"REMOTE_USER", "stale">>} /\ Len(req[r1].resp) = 1
        /\ Authorized(r2, FALSE) /\ Len(req[r2].resp) = 1

\* The outcome of the handler run on request in with no other request in
\* flight: the closure's statements in program order, under the installed
\* configuration.
SoloOutcome(in) ==
    LET c  == Extract(in)
        u  == CallAuthenticator(mw.Authenticator, c.token)
        a  == CallAuthorizer(mw.Authorizer, in)
        e  == EnvSet(in.env, "REMOTE_USER", u)
        ca == Call("Authenticator", c.token, u)
        cz == Call("Authorizer", in.path, a)
        no == << unauthorized(mw.Realm) >>
    IN  IF c.err # NoError
        THEN [calls |-> << >>, resp |-> no, env |-> in.env]
        ELSE IF u = ""
        THEN [calls |-> << ca >>, resp |-> no, env |-> in.env]
        ELSE IF ~a
        THEN [calls |-> << ca, cz >>, resp |-> no, env |-> in.env]
        ELSE [calls |-> << ca, cz, Call("handler", in.path, e) >>,
              resp |-> << >>, env |-> e]

\* s is an initial part of t.
IsPrefix(s, t) == Len(s) <= Len(t) /\ s = SubSeq(t, 1, Len(s))

\* C21: request processing never writes the gate configuration.  Once
\* MiddlewareFunc has returned, no step changes Realm, Authenticator,
\* Authorizer or the entropy setting; a step changes the record of at most
\* one request; and under every interleaving a request in flight has made
\* the callbacks it would have made alone, and a finished request has the
\* outcome and the attached identity it would have had alone.
C21_ConfigurationReadOnly ==
    /\ [][installed => mw' = mw]_vars
    /\ [][Cardinality({r \in Requests : req'[r] # req[r]}) <= 1]_vars
    /\ [](\A r \in Requests :
            req[r].pc # "idle"
            => /\ IsPrefix(req[r].calls, SoloOutcome(req[r].in).calls)
               /\ req[r].pc = "done" =>
                     /\ req[r].calls = SoloOutcome(req[r].in).calls
                     /\ req[r].resp = SoloOutcome(req[r].in).resp
                     /\ req[r].env = SoloOutcome(req[r].in).env)

\* C21 witness: two requests of different users in flight at once, both
\* authenticated and neither answered yet, under a non-default Authorizer.
C21_Witness ==
    /\ installed
    /\ mw.Authorizer = "byPath"
    /\ \E r1, r2 \in Requests :
          /\ req[r1].pc = "authorize" /\ req[r1].userID = "user-42"
          /\ req[r2].pc = "authorize" /\ req[r2].userID = "user-7"
          /\ req[r2].in.path = "/admin"

\* C22: Token(request) returns the token the gate authenticated.  For every
\* request the gate forwarded to the wrapped handler, Token called on that
\* request returns no error and returns the token value that was passed to
\* the Authenticator for it.
C22_TokenIsAuthenticatedToken ==
    prim.op = "Token"
    => /\ prim.ret.err = NoError
       /\ \A i \in CallsOf(prim.arg, "Authenticator") :
             req[prim.arg].calls[i].arg = prim.ret.token

=============================================================================
